---- MODULE Spec2Model ----
(***************************************************************************)
(* Model of pdf2text.py: PDFConverter.convert with its two extraction      *)
(* backends (PyPDF2 = backend A, pdfplumber = backend B), and the batch    *)
(* mode of the command line (main -> PDFConverter.batch_convert).          *)
(*                                                                         *)
(* Text is a sequence of one-character strings.  The two libraries are     *)
(* opaque: a file is described by what each library does with it (raise    *)
(* while opening/parsing, or the per-page results of extract_text()).      *)
(* A library gives the same answer each time it reads the same file.       *)
(***************************************************************************)
EXTENDS Naturals, Sequences, FiniteSets, TLC

VARIABLES
    method,      \* PDFConverter.method
    fs,          \* the file system: path -> file (what each backend sees)
    cur,         \* pdf_path of the running convert call
    pc,          \* position inside convert
    outcome,     \* what convert returned or raised
    calls,       \* history: the backend invocations of the running convert
    pdf_paths,   \* batch_convert's argument
    output_dir,  \* batch_convert's argument (NoDir = None)
    caller,      \* who drives: "convert" (one call), "api", "main"
    recursive,   \* main's -r flag
    bpc,         \* position of the driver (main / batch_convert)
    idx,         \* number of paths the for loop has finished
    results,     \* batch_convert's dict
    outfiles,    \* files in the output directory: output path -> content
    convLog,     \* history: the paths convert was called with, in call order
    extracted,   \* history: str(path) -> text its last successful convert gave
    failed,      \* history: per finished iteration, whether it took the except
    exit_code    \* the process exit status once it ended: <<>> or <<status>>

vars == <<method, fs, cur, pc, outcome, calls, pdf_paths, output_dir, caller,
          recursive, bpc, idx, results, outfiles, convLog, extracted, failed,
          exit_code>>

convVars == <<method, fs, cur, pc, outcome, calls>>
drvVars == <<pdf_paths, output_dir, caller, recursive, bpc, idx, results,
             outfiles, convLog, extracted, failed, exit_code>>

-----------------------------------------------------------------------------
(* Bounds *)

MaxPages == 2
MaxBatch == 2

-----------------------------------------------------------------------------
(* Text *)

NL == "\n"
SP == " "
Whitespace == {SP, NL}

\* extract_text() giving no value for a page (None)
None == <<"<None>">>

\* truthiness of a page result: None and "" are falsy
Truthy(t) == t # None /\ t # <<>>

RECURSIVE Join(_)
\* '\n'.join(list)
Join(list) ==
    IF list = <<>> THEN <<>>
    ELSE IF Len(list) = 1 THEN list[1]
    ELSE list[1] \o <<NL>> \o Join(Tail(list))

RECURSIVE LStrip(_)
LStrip(t) ==
    IF t # <<>> /\ t[1] \in Whitespace THEN LStrip(Tail(t)) ELSE t

RECURSIVE RStrip(_)
RStrip(t) ==
    IF t # <<>> /\ t[Len(t)] \in Whitespace
    THEN RStrip(SubSeq(t, 1, Len(t) - 1)) ELSE t

\* str.strip()
Strip(t) == RStrip(LStrip(t))

LowerChar(c) ==
    CASE c = "P" -> "p"
      [] c = "D" -> "d"
      [] c = "F" -> "f"
      [] c = "T" -> "t"
      [] c = "X" -> "x"
      [] OTHER -> c

\* str.lower()
Lower(s) == [i \in 1..Len(s) |-> LowerChar(s[i])]

-----------------------------------------------------------------------------
(* Results of a call *)

Ok(text) ==
    [status |-> "ok", text |-> text, exc |-> "", backend |-> "", detail |-> ""]

Raise(exc, backend, detail) ==
    [status |-> "error", text |-> <<>>, exc |-> exc, backend |-> backend,
     detail |-> detail]

NoOutcome == Raise("", "", "not returned")

-----------------------------------------------------------------------------
(* Files *)

\* what a library does with a file: raise while opening/parsing it, or give
\* these per-page extract_text() results
Lib(raises, pages) == [raises |-> raises, pages |-> pages]

File(A, B) == [exists |-> TRUE, A |-> A, B |-> B]
Missing == [exists |-> FALSE, A |-> Lib(TRUE, <<>>), B |-> Lib(TRUE, <<>>)]

Path(dir, stem, suffix) == [dir |-> dir, stem |-> stem, suffix |-> suffix]

\* the file a path names; a path with no directory entry names nothing
FileAt(p) == IF p \in DOMAIN fs THEN fs[p] ELSE Missing

\* str(pdf_path)
StrPath(p) == <<p.dir, "/", p.stem>> \o p.suffix

PdfSuffix == <<".", "p", "d", "f">>
TxtSuffix == <<".", "t", "x", "t">>

-----------------------------------------------------------------------------
(* PDFConverter.extract_with_pypdf2 *)

RECURSIVE AppendAll(_, _)
\* for page_num in range(num_pages): text.append(page.extract_text())
AppendAll(text, pages) ==
    IF pages = <<>> THEN text
    ELSE AppendAll(Append(text, pages[1]), Tail(pages))

extract_with_pypdf2(file) ==
    IF file.A.raises THEN Raise("Exception", "PyPDF2", "library")
    ELSE LET text == AppendAll(<<>>, file.A.pages)
         IN  IF \E i \in 1..Len(text) : text[i] = None
             THEN Raise("Exception", "PyPDF2", "TypeError")  \* join of a None
             ELSE Ok(Join(text))

(* PDFConverter.extract_with_pdfplumber *)

RECURSIVE AppendTruthy_NotNoneOnly(_, _)
\* variant: the test is "page_text is not None", so an empty text is kept
AppendTruthy_NotNoneOnly(text, pages) ==
    IF pages = <<>> THEN text
    ELSE AppendTruthy_NotNoneOnly(
             IF pages[1] # None THEN Append(text, pages[1]) ELSE text,
             Tail(pages))

RECURSIVE AppendTruthy(_, _)
\* for page in pdf.pages: if page_text: text.append(page_text)
AppendTruthy(text, pages) ==
    IF pages = <<>> THEN text
    ELSE AppendTruthy(IF Truthy(pages[1]) THEN Append(text, pages[1]) ELSE text,
                      Tail(pages))

extract_with_pdfplumber(file) ==
    IF file.B.raises THEN Raise("Exception", "pdfplumber", "library")
    ELSE Ok(Join(AppendTruthy(<<>>, file.B.pages)))

-----------------------------------------------------------------------------
(* PDFConverter.convert *)

\* variant: the extension is not checked
ValidationError_ExistsOnly(p) ==
    IF ~FileAt(p).exists THEN Raise("FileNotFoundError", "", "PDF file not found")
    ELSE NoOutcome

\* the two checks at the head of convert: the error raised, or NoOutcome
ValidationError(p) ==
    IF ~FileAt(p).exists THEN Raise("FileNotFoundError", "", "PDF file not found")
    ELSE IF Lower(p.suffix) # PdfSuffix
         THEN Raise("ValueError", "", "File must be a PDF")
         ELSE NoOutcome

\* variant: the method is ignored and every call takes the fallback chain
Dispatch_AlwaysAuto(m) == "auto_try"

\* the branch the method selects
Dispatch(m) ==
    IF m = "pypdf2" THEN "direct_A"
    ELSE IF m = "pdfplumber" THEN "direct_B"
    ELSE "auto_try"

\* variant: only the empty text counts as blank ("if not text")
Blank_EmptyOnly(text) == text = <<>>

\* not text.strip()
Blank(text) == Strip(text) = <<>>

Validate ==
    /\ pc = "validate"
    /\ LET e == ValidationError(cur)
       IN  IF e # NoOutcome
           THEN /\ outcome' = e
                /\ pc' = "returned"
           ELSE /\ outcome' = outcome
                /\ pc' = Dispatch(method)
    /\ UNCHANGED <<method, fs, cur, calls>>
    /\ UNCHANGED drvVars

\* return self.extract_with_pypdf2(pdf_path)
DirectA ==
    /\ pc = "direct_A"
    /\ calls' = Append(calls, "A")
    /\ outcome' = extract_with_pypdf2(FileAt(cur))
    /\ pc' = "returned"
    /\ UNCHANGED <<method, fs, cur>>
    /\ UNCHANGED drvVars

\* return self.extract_with_pdfplumber(pdf_path)
DirectB ==
    /\ pc = "direct_B"
    /\ calls' = Append(calls, "B")
    /\ outcome' = extract_with_pdfplumber(FileAt(cur))
    /\ pc' = "returned"
    /\ UNCHANGED <<method, fs, cur>>
    /\ UNCHANGED drvVars

\* try: text = self.extract_with_pdfplumber(pdf_path)
AutoTryB ==
    /\ pc = "auto_try"
    /\ calls' = Append(calls, "B")
    /\ LET r == extract_with_pdfplumber(FileAt(cur))
       IN  IF r.status = "error"
           THEN /\ pc' = "auto_except"
                /\ outcome' = outcome
           ELSE IF Blank(r.text)
                THEN /\ pc' = "auto_blank"
                     /\ outcome' = outcome
                ELSE /\ pc' = "returned"
                     /\ outcome' = r
    /\ UNCHANGED <<method, fs, cur>>
    /\ UNCHANGED drvVars

\* if not text.strip(): text = self.extract_with_pypdf2(pdf_path), still
\* inside the try: what it raises lands in the bare except
AutoBlankA ==
    /\ pc = "auto_blank"
    /\ calls' = Append(calls, "A")
    /\ LET r == extract_with_pypdf2(FileAt(cur))
       IN  IF r.status = "error"
           THEN /\ pc' = "auto_except"
                /\ outcome' = outcome
           ELSE /\ pc' = "returned"
                /\ outcome' = r
    /\ UNCHANGED <<method, fs, cur>>
    /\ UNCHANGED drvVars

\* variant: the except clause gives up with backend B's failure
AutoExceptA_ReraisesB ==
    /\ pc = "auto_except"
    /\ calls' = calls
    /\ outcome' = extract_with_pdfplumber(FileAt(cur))
    /\ pc' = "returned"
    /\ UNCHANGED <<method, fs, cur>>
    /\ UNCHANGED drvVars

\* except: return self.extract_with_pypdf2(pdf_path)
AutoExceptA ==
    /\ pc = "auto_except"
    /\ calls' = Append(calls, "A")
    /\ outcome' = extract_with_pypdf2(FileAt(cur))
    /\ pc' = "returned"
    /\ UNCHANGED <<method, fs, cur>>
    /\ UNCHANGED drvVars

convert ==
    \/ Validate
    \/ DirectA
    \/ DirectB
    \/ AutoTryB
    \/ AutoBlankA
    \/ AutoExceptA

-----------------------------------------------------------------------------
(* One call of convert on one path *)

Methods == {"auto", "pypdf2", "pdfplumber", "other"}

NoDir == "<None>"

PagesA == {None, <<>>, <<"a">>}
PagesB == {None, <<>>, <<SP>>, <<"b">>}

SeqsUpTo(S, n) == UNION {[1..k -> S] : k \in 0..n}

LibsA == {Lib(TRUE, <<>>)} \cup {Lib(FALSE, ps) : ps \in SeqsUpTo(PagesA, MaxPages)}
LibsB == {Lib(TRUE, <<>>)} \cup {Lib(FALSE, ps) : ps \in SeqsUpTo(PagesB, MaxPages)}

Suffixes == {PdfSuffix, <<".", "P", "D", "F">>, <<".", "P", "d", "f">>,
             TxtSuffix, <<>>}

InitConvert ==
    /\ method \in Methods
    /\ \E suffix \in Suffixes :
         LET p == Path("in", "a", suffix)
         IN  /\ cur = p
             /\ \/ fs = (p :> Missing)
                \/ \E A \in LibsA, B \in LibsB : fs = (p :> File(A, B))
    /\ pc = "validate"
    /\ outcome = NoOutcome
    /\ calls = <<>>
    /\ pdf_paths = <<>>
    /\ output_dir = NoDir
    /\ caller = "convert"
    /\ recursive = FALSE
    /\ bpc = "call"
    /\ idx = 0
    /\ results = <<>>
    /\ outfiles = <<>>
    /\ convLog = <<cur>>
    /\ extracted = <<>>
    /\ failed = <<>>
    /\ exit_code = <<>>

NextConvert == convert

SpecConvert == InitConvert /\ [][NextConvert]_vars

-----------------------------------------------------------------------------
(* PDFConverter.batch_convert and the directory branch of main *)

PreviewLen == 200

\* text[:200] + '...' if len(text) > 200 else text
Preview(text) ==
    IF Len(text) > PreviewLen
    THEN SubSeq(text, 1, PreviewLen) \o <<".", ".", ".">>
    ELSE text

\* output_dir / f"{pdf_path.stem}.txt"
OutputPath(dir, p) == Path(dir, p.stem, TxtSuffix)

\* d[k] = v
Put(d, k, v) == [x \in DOMAIN d \cup {k} |-> IF x = k THEN v ELSE d[x]]

\* input_path.glob('**/*.pdf' if recursive else '*.pdf'): the directory
\* entries under "in" whose name ends in .pdf
Glob(rec) ==
    {p \in DOMAIN fs : p.suffix = PdfSuffix /\ (rec \/ p.dir = "in")}

Orderings(S) ==
    {q \in [1..Cardinality(S) -> S] : \A i, j \in DOMAIN q : q[i] = q[j] => i = j}

\* pdf_files = list(input_path.glob(pattern)), in the order the directory
\* is enumerated
MainGlob ==
    /\ bpc = "main"
    /\ \E q \in Orderings(Glob(recursive)) : pdf_paths' = q
    /\ bpc' = "globbed"
    /\ UNCHANGED <<output_dir, caller, recursive, idx, results, outfiles,
                   convLog, extracted, failed, exit_code>>
    /\ UNCHANGED convVars

\* if not pdf_files: sys.exit(0)
MainNoFiles ==
    /\ bpc = "globbed"
    /\ pdf_paths = <<>>
    /\ exit_code' = <<0>>
    /\ bpc' = "exit_nofiles"
    /\ UNCHANGED <<pdf_paths, output_dir, caller, recursive, idx, results,
                   outfiles, convLog, extracted, failed>>
    /\ UNCHANGED convVars

\* output_dir.mkdir(parents=True, exist_ok=True) (when -o is given), then
\* the call of batch_convert
MainCallBatch ==
    /\ bpc = "globbed"
    /\ pdf_paths # <<>>
    /\ bpc' = "loop"
    /\ UNCHANGED <<pdf_paths, output_dir, caller, recursive, idx, results,
                   outfiles, convLog, extracted, failed, exit_code>>
    /\ UNCHANGED convVars

\* mkdir raising (the output path is a file, no permission): nothing in main
\* catches it
MainMkdirFails ==
    /\ bpc = "globbed"
    /\ pdf_paths # <<>>
    /\ output_dir # NoDir
    /\ exit_code' = <<1>>
    /\ bpc' = "crashed"
    /\ UNCHANGED <<pdf_paths, output_dir, caller, recursive, idx, results,
                   outfiles, convLog, extracted, failed>>
    /\ UNCHANGED convVars

\* for pdf_path in pdf_paths: try: text = self.convert(pdf_path)
BatchIter ==
    /\ bpc = "loop"
    /\ idx < Len(pdf_paths)
    /\ cur' = pdf_paths[idx + 1]
    /\ pc' = "validate"
    /\ calls' = <<>>
    /\ outcome' = NoOutcome
    /\ convLog' = Append(convLog, pdf_paths[idx + 1])
    /\ bpc' = "converting"
    /\ UNCHANGED <<method, fs, pdf_paths, output_dir, caller, recursive, idx,
                   results, outfiles, extracted, failed, exit_code>>

\* the end of one iteration: back to the head of the loop
EndIter(fail) ==
    /\ idx' = idx + 1
    /\ failed' = Append(failed, fail)
    /\ bpc' = "loop"
    /\ pc' = "idle"
    /\ extracted' = IF outcome.status = "ok"
                    THEN Put(extracted, StrPath(cur), outcome.text)
                    ELSE extracted
    /\ UNCHANGED <<method, fs, cur, outcome, calls, pdf_paths, output_dir,
                   caller, recursive, convLog, exit_code>>

\* output_path.write_text(text, encoding='utf-8') and the success entry
RecordWritten ==
    /\ bpc = "converting" /\ pc = "returned"
    /\ outcome.status = "ok"
    /\ output_dir # NoDir
    /\ LET output_path == OutputPath(output_dir, cur)
       IN  /\ outfiles' = Put(outfiles, output_path, outcome.text)
           /\ results' = Put(results, StrPath(cur),
                             [status |-> "success", output |-> output_path])
    /\ EndIter(FALSE)

\* write_text raising, caught by except Exception: either the open failed
\* (file untouched) or the write failed after the open truncated the file
RecordWriteFailed ==
    /\ bpc = "converting" /\ pc = "returned"
    /\ outcome.status = "ok"
    /\ output_dir # NoDir
    /\ LET output_path == OutputPath(output_dir, cur)
       IN  \/ outfiles' = outfiles
           \/ outfiles' = Put(outfiles, output_path, <<>>)
    /\ results' = Put(results, StrPath(cur),
                      [status |-> "error", error |-> "write_text failed"])
    /\ EndIter(TRUE)

\* no output directory: the success entry holds a preview of the text
RecordPreview ==
    /\ bpc = "converting" /\ pc = "returned"
    /\ outcome.status = "ok"
    /\ output_dir = NoDir
    /\ results' = Put(results, StrPath(cur),
                      [status |-> "success", text |-> Preview(outcome.text)])
    /\ outfiles' = outfiles
    /\ EndIter(FALSE)

\* variant: the failure is swallowed without an entry in the report
RecordError_Unrecorded ==
    /\ bpc = "converting" /\ pc = "returned"
    /\ outcome.status = "error"
    /\ results' = results
    /\ outfiles' = outfiles
    /\ EndIter(TRUE)

\* variant: no except clause, the failure leaves batch_convert
RecordError_Propagates ==
    /\ bpc = "converting" /\ pc = "returned"
    /\ outcome.status = "error"
    /\ bpc' = "aborted"
    /\ UNCHANGED <<pdf_paths, output_dir, caller, recursive, idx, results,
                   outfiles, convLog, extracted, failed, exit_code>>
    /\ UNCHANGED convVars

\* except Exception as e: results[str(pdf_path)] = error entry
RecordError ==
    /\ bpc = "converting" /\ pc = "returned"
    /\ outcome.status = "error"
    /\ results' = Put(results, StrPath(cur),
                      [status |-> "error",
                       error |-> <<outcome.exc, outcome.backend, outcome.detail>>])
    /\ outfiles' = outfiles
    /\ EndIter(TRUE)

\* return results
BatchReturn ==
    /\ bpc = "loop"
    /\ idx = Len(pdf_paths)
    /\ bpc' = "returned"
    /\ UNCHANGED <<pdf_paths, output_dir, caller, recursive, idx, results,
                   outfiles, convLog, extracted, failed, exit_code>>
    /\ UNCHANGED convVars

success_count == Cardinality({k \in DOMAIN results : results[k].status = "success"})
error_count == Cardinality({k \in DOMAIN results : results[k].status = "error"})

\* the summary lines; main returns and the process ends with status 0
MainSummary ==
    /\ bpc = "returned"
    /\ caller = "main"
    /\ exit_code' = <<0>>
    /\ bpc' = "exit_summary"
    /\ UNCHANGED <<pdf_paths, output_dir, caller, recursive, idx, results,
                   outfiles, convLog, extracted, failed>>
    /\ UNCHANGED convVars

batch_convert ==
    \/ BatchIter
    \/ RecordWritten
    \/ RecordWriteFailed
    \/ RecordPreview
    \/ RecordError
    \/ BatchReturn

main ==
    \/ MainGlob
    \/ MainNoFiles
    \/ MainCallBatch
    \/ MainMkdirFails
    \/ MainSummary

-----------------------------------------------------------------------------
(* A batch run over a small directory tree *)

CliMethods == {"auto", "pypdf2", "pdfplumber"}

\* the files a run can meet, by path
Catalogue ==
    (Path("in", "a", PdfSuffix)
        :> File(Lib(FALSE, <<<<"a">>>>), Lib(FALSE, <<<<"b">>>>))) @@
    (Path("in/sub", "a", PdfSuffix)
        :> File(Lib(FALSE, <<<<"a">>, <<"a">>>>), Lib(FALSE, <<None, <<SP>>>>))) @@
    (Path("in", "b", PdfSuffix)
        :> File(Lib(TRUE, <<>>), Lib(TRUE, <<>>))) @@
    (Path("in", "c", PdfSuffix)
        :> Missing) @@
    (Path("in", "d", PdfSuffix)
        :> File(Lib(TRUE, <<>>), Lib(FALSE, <<>>))) @@
    (Path("in", "notes", TxtSuffix)
        :> File(Lib(TRUE, <<>>), Lib(TRUE, <<>>)))

Restrict(f, S) == [x \in S |-> f[x]]

\* what the output directory holds before the run
StaleOutfiles == {<<>>, (Path("out", "a", TxtSuffix) :> <<"z">>)}

InitBatch ==
    /\ \/ /\ caller = "main"
          /\ method \in CliMethods
          /\ recursive \in BOOLEAN
          /\ \E S \in SUBSET DOMAIN Catalogue :
                /\ Cardinality({p \in S : p.suffix = PdfSuffix}) <= MaxBatch
                /\ fs = Restrict(Catalogue, S)
          /\ pdf_paths = <<>>
          /\ bpc = "main"
       \/ /\ caller = "api"
          /\ method \in Methods
          /\ recursive = FALSE
          /\ fs = Catalogue
          /\ pdf_paths \in SeqsUpTo(DOMAIN Catalogue, MaxBatch)
          /\ bpc = "loop"
    /\ \/ output_dir = NoDir /\ outfiles = <<>>
       \/ output_dir = "out" /\ outfiles \in StaleOutfiles
    /\ cur = Path("", "", <<>>)
    /\ pc = "idle"
    /\ outcome = NoOutcome
    /\ calls = <<>>
    /\ idx = 0
    /\ results = <<>>
    /\ convLog = <<>>
    /\ extracted = <<>>
    /\ failed = <<>>
    /\ exit_code = <<>>

NextBatch == main \/ batch_convert \/ convert

SpecBatch == InitBatch /\ [][NextBatch]_vars

\* the program runs to its end: no step waits on anything
FairBatch == SpecBatch /\ WF_vars(NextBatch)

-----------------------------------------------------------------------------
(* Vocabulary of the properties *)

\* text.split('\n'): the newline-separated segments of a text
RECURSIVE Split(_)
Split(t) ==
    IF \A i \in 1..Len(t) : t[i] # NL THEN <<t>>
    ELSE LET i == CHOOSE k \in 1..Len(t) :
                      t[k] = NL /\ \A j \in 1..(k - 1) : t[j] # NL
         IN  <<SubSeq(t, 1, i - 1)>> \o Split(SubSeq(t, i + 1, Len(t)))

Count(log, b) == Cardinality({i \in 1..Len(log) : log[i] = b})

\* the spellings of the .pdf extension, compared without regard to case
PdfExtensions == {<<".", "p", "d", "f">>, <<".", "P", "D", "F">>,
                  <<".", "P", "d", "f">>}

ValidPath(p) == FileAt(p).exists /\ p.suffix \in PdfExtensions

IsAuto(m) == m \notin {"pypdf2", "pdfplumber"}

AllWhitespace(t) == \A i \in 1..Len(t) : t[i] = SP \/ t[i] = NL

HasText(t) == t # None /\ Len(t) > 0

OrEmpty(pages) == [i \in 1..Len(pages) |-> IF pages[i] = None THEN <<>> ELSE pages[i]]

Returned == pc = "returned"

-----------------------------------------------------------------------------
(* Properties of convert *)

\* C1: in Auto mode on a valid path, when backend B (pdfplumber) raises, convert
\* ends as convert with method pypdf2 does on that path: A's text when A
\* succeeds, A's failure (never B's) when A fails.
C1_AutoThrowEqualsBackendA ==
    (Returned /\ IsAuto(method) /\ ValidPath(cur) /\ FileAt(cur).B.raises)
        => /\ outcome = extract_with_pypdf2(FileAt(cur))
           /\ outcome.status = "error" => outcome.backend = "PyPDF2"
           /\ FileAt(cur).A.raises => outcome.status = "error"

C1_Witness ==
    /\ Returned /\ IsAuto(method) /\ ValidPath(cur)
    /\ FileAt(cur).B.raises /\ FileAt(cur).A.raises
    /\ outcome.status = "error" /\ outcome.backend = "PyPDF2"
    /\ calls = <<"B", "A">>

\* C2: in Auto mode on a valid path, when backend B succeeds with a text that
\* is empty or all whitespace, convert ends as convert with method pypdf2 does
\* on that path; when A succeeds the result is A's text, not an error.
C2_AutoBlankEqualsBackendA ==
    (/\ Returned /\ IsAuto(method) /\ ValidPath(cur)
     /\ ~FileAt(cur).B.raises
     /\ AllWhitespace(extract_with_pdfplumber(FileAt(cur)).text))
        => /\ outcome = extract_with_pypdf2(FileAt(cur))
           /\ (~FileAt(cur).A.raises /\ \A i \in 1..Len(FileAt(cur).A.pages) :
                                         FileAt(cur).A.pages[i] # None)
                 => outcome.status = "ok"

C2_Witness ==
    /\ Returned /\ IsAuto(method) /\ ValidPath(cur)
    /\ ~FileAt(cur).B.raises
    /\ extract_with_pdfplumber(FileAt(cur)).text = <<SP, NL, SP>>
    /\ outcome = Ok(<<>>)

\* C3: one call of convert invokes backend B at most once and backend A at
\* most once.
C3_AtMostOneCallPerBackend ==
    Count(calls, "A") <= 1 /\ Count(calls, "B") <= 1

\* C4: on a path that does not exist, or exists with an extension other than
\* .pdf (any case), convert raises the input error (FileNotFoundError for the
\* missing path, ValueError for the extension) and calls no backend, whatever
\* the method.
C4_InvalidInputNoBackend ==
    ~ValidPath(cur)
        => /\ calls = <<>>
           /\ pc \in {"validate", "returned"}
           /\ Returned =>
                /\ outcome.status = "error"
                /\ outcome.backend = ""
                /\ outcome.exc = IF ~FileAt(cur).exists THEN "FileNotFoundError"
                                 ELSE "ValueError"

C4_Witness ==
    /\ Returned /\ FileAt(cur).exists /\ cur.suffix = TxtSuffix
    /\ outcome.exc = "ValueError" /\ calls = <<>>

\* C7: with method pypdf2 on a valid PDF the library opens, whatever the
\* per-page results (text, empty text, or no value), convert returns the
\* per-page outputs joined by newline, one segment per page, a page without
\* text being an empty segment.
C7_BackendAJoinsEveryPage ==
    (Returned /\ method = "pypdf2" /\ ValidPath(cur) /\ ~FileAt(cur).A.raises)
        => /\ outcome.status = "ok"
           /\ Len(FileAt(cur).A.pages) = 0 => outcome.text = <<>>
           /\ Len(FileAt(cur).A.pages) > 0 => Split(outcome.text) = OrEmpty(FileAt(cur).A.pages)

\* C8: with method pdfplumber on a valid PDF the library opens, convert returns
\* the newline-join, in page order, of exactly the pages whose text is
\* non-empty; a page with empty or no text adds no segment and no separator.
C8_BackendBSkipsEmptyPages ==
    (Returned /\ method = "pdfplumber" /\ ValidPath(cur) /\ ~FileAt(cur).B.raises)
        => LET kept == SelectSeq(FileAt(cur).B.pages, HasText)
           IN  /\ outcome.status = "ok"
               /\ kept = <<>> => outcome.text = <<>>
               /\ kept # <<>> => Split(outcome.text) = kept

C8_Witness ==
    /\ Returned /\ method = "pdfplumber" /\ ValidPath(cur) /\ ~FileAt(cur).B.raises
    /\ \E i, j \in 1..Len(FileAt(cur).B.pages) :
          ~HasText(FileAt(cur).B.pages[i]) /\ HasText(FileAt(cur).B.pages[j])
    /\ outcome = Ok(<<"b">>)

\* C9: in a direct mode (pypdf2 or pdfplumber) on a valid path only the
\* selected backend is called, once; what it raises is what convert raises,
\* naming that backend, and its text is returned as it is, blank or not.
C9_DirectModeNoFallback ==
    (ValidPath(cur) /\ ~IsAuto(method))
        => LET b == IF method = "pypdf2" THEN "A" ELSE "B"
               name == IF method = "pypdf2" THEN "PyPDF2" ELSE "pdfplumber"
               lib == IF method = "pypdf2" THEN FileAt(cur).A ELSE FileAt(cur).B
           IN  /\ \A i \in 1..Len(calls) : calls[i] = b
               /\ Returned =>
                    /\ calls = <<b>>
                    /\ lib.raises => /\ outcome.status = "error"
                                     /\ outcome.exc = "Exception"
                                     /\ outcome.backend = name
                    /\ outcome.status = "error" => outcome.backend = name

C9_Witness ==
    /\ Returned /\ method = "pdfplumber" /\ ValidPath(cur)
    /\ FileAt(cur).B.raises /\ ~FileAt(cur).A.raises
    /\ calls = <<"B">>
    /\ outcome.status = "error" /\ outcome.backend = "pdfplumber"

-----------------------------------------------------------------------------
(* Properties of the batch run *)

\* batch_convert has returned its report
BatchDone == bpc \in {"returned", "exit_summary"}

N == Len(pdf_paths)

\* the number of inputs whose iteration failed
M == Count(failed, TRUE)

Distinct(q) == \A i, j \in 1..Len(q) : q[i] = q[j] => i = j

ReportCounts ==
    /\ Cardinality(DOMAIN results) = N
    /\ success_count + error_count = N
    /\ error_count = M
    /\ (caller = "main" /\ exit_code # <<>>) => exit_code = <<0>>

\* C5 as stated: batch conversion of any sequence of N paths of which M fail
\* returns a report of N entries with success + error = N and error = M, and
\* the process ends with status 0.
C5_ReportHasNEntries == BatchDone => ReportCounts

\* C5, amended: the same for any sequence of N pairwise distinct paths (the
\* report is keyed by path, so a repeated path has one entry).
C5_DistinctPathsReportHasNEntries ==
    (BatchDone /\ Distinct(pdf_paths)) => ReportCounts

C5_Witness ==
    /\ bpc = "exit_summary" /\ Distinct(pdf_paths)
    /\ N = 2 /\ M = 1
    /\ Cardinality(DOMAIN results) = 2
    /\ success_count = 1 /\ error_count = 1
    /\ exit_code = <<0>>

\* C6: batch_convert calls convert once per input path, in input order, and
\* whatever fails on a path (the input check, a backend, the write of its
\* output file) the loop goes on to the end of the sequence.
C6_EveryPathConvertedInOrder ==
    /\ [](/\ Len(convLog) <= N
          /\ convLog = SubSeq(pdf_paths, 1, Len(convLog))
          /\ Len(convLog) \in {idx, idx + 1}
          /\ Len(failed) = idx)
    /\ (bpc = "loop") ~> (bpc = "returned" /\ idx = N /\ convLog = pdf_paths)

C6_Witness ==
    /\ bpc = "returned" /\ N = 2 /\ idx = 2
    /\ failed = <<TRUE, TRUE>>
    /\ results[StrPath(pdf_paths[1])].error = "write_text failed"
    /\ results[StrPath(pdf_paths[2])].error # "write_text failed"
    /\ convLog = pdf_paths

\* C10: after a batch run with an output directory, the output file named in
\* every success entry holds the text extracted from that entry's input path.
C10_OutputFileHoldsOwnText ==
    (BatchDone /\ output_dir # NoDir)
        => \A k \in DOMAIN results :
              results[k].status = "success"
                 => /\ results[k].output \in DOMAIN outfiles
                    /\ outfiles[results[k].output] = extracted[k]

====
